---- MODULE Spec2Model ----
(***************************************************************************)
(* Model of html-helpers: slim (src/src/slimmer.rs) and select             *)
(* (src/src/selector/select.rs).                                           *)
(*                                                                         *)
(* Tag names and attribute names are only ever compared for equality, so   *)
(* they are TLA+ strings.  Text contents, attribute values, serialized     *)
(* content and selector strings are inspected character by character       *)
(* (trim, to_lowercase, contains, lines, join), so they are sequences of   *)
(* one-character strings.                                                  *)
(***************************************************************************)
EXTENDS Integers, Sequences, FiniteSets, TLC

VARIABLES
    dom,        \* slim: the RcDom node table, mutated in place by the pruner
    input,      \* slim: the tree as parsed (never changes)
    stack,      \* slim: the call stack of process_node_recursive
    pc,         \* where the call is; slim: "parse", then "prune", then "done"
                \* when process_node_recursive(&dom.document, false) has returned
                \* ("error" when it returned Err); "prune_again" and
                \* "done_again" when it is called on the pruned tree once more
    visited,    \* slim: per node, the context it was processed in
    returned,   \* slim: per node, what process_node_recursive returned for it
    borrow,     \* slim: per node, the RefCell borrow flags of its child list
                \* and of its attribute list
    pruned_once, \* the tree as the first call of process_node_recursive on the
                \* document left it
    content,    \* remove_empty_lines: the serialized content it is given
    compacted,  \* remove_empty_lines: the string it returns
    selectors,     \* select: the selector strings, in the caller's order
    html_content,  \* select: the document, as Html::parse_document reads it
    select_result  \* select: what the call returned

slimVars == <<dom, input, stack, visited, returned, borrow, pruned_once>>
lineVars == <<content, compacted>>
selVars == <<selectors, html_content, select_result>>

vars == <<slimVars, pc, lineVars, selVars>>

----------------------------------------------------------------------------
(* Bounds *)

NumNodes == 4

\* Longest serialized content given to remove_empty_lines
MaxContentLen == 5

\* Most selectors passed to select
MaxSelectors == 2

----------------------------------------------------------------------------
(* Constants of slimmer.rs *)

TAGS_TO_REMOVE == {"script", "link", "style", "svg", "base"}

\* REMOVABLE_EMPTY_TAGS with main listed too
REMOVABLE_EMPTY_TAGS_AND_MAIN ==
    {"div", "span", "p", "i", "b", "em", "strong", "section", "article",
     "header", "footer", "nav", "aside", "main"}

REMOVABLE_EMPTY_TAGS ==
    {"div", "span", "p", "i", "b", "em", "strong", "section", "article",
     "header", "footer", "nav", "aside"}

META_PROPERTY_KEYWORDS ==
    { <<"t","i","t","l","e">>,
      <<"u","r","l">>,
      <<"i","m","a","g","e">>,
      <<"d","e","s","c","r","i","p","t","i","o","n">> }

\* ALLOWED_META_ATTRS without property
ALLOWED_META_ATTRS_CONTENT_ONLY == {"content"}

ALLOWED_META_ATTRS == {"property", "content"}

\* ALLOWED_BODY_ATTRS with an event handler listed too
ALLOWED_BODY_ATTRS_AND_ONCLICK ==
    {"class", "aria-label", "href", "title", "id", "onclick"}

ALLOWED_BODY_ATTRS == {"class", "aria-label", "href", "title", "id"}

----------------------------------------------------------------------------
(* str helpers of the standard library, as the code uses them *)

\* char::is_whitespace, on the characters the model uses
IsWhitespace(c) == c \in {" ", "\t", "\n", "\r"}

RECURSIVE TrimStart(_)
TrimStart(s) ==
    IF s = <<>> THEN s
    ELSE IF IsWhitespace(Head(s)) THEN TrimStart(Tail(s)) ELSE s

RECURSIVE TrimEnd(_)
TrimEnd(s) ==
    IF s = <<>> THEN s
    ELSE IF IsWhitespace(s[Len(s)]) THEN TrimEnd(SubSeq(s, 1, Len(s) - 1)) ELSE s

\* str::trim
Trim(s) == TrimEnd(TrimStart(s))

UpperChars == <<"A","B","C","D","E","F","G","H","I","J","K","L","M",
                "N","O","P","Q","R","S","T","U","V","W","X","Y","Z">>
LowerChars == <<"a","b","c","d","e","f","g","h","i","j","k","l","m",
                "n","o","p","q","r","s","t","u","v","w","x","y","z">>

LowerChar(c) ==
    IF \E i \in 1..Len(UpperChars) : UpperChars[i] = c
    THEN LowerChars[CHOOSE i \in 1..Len(UpperChars) : UpperChars[i] = c]
    ELSE c

\* str::to_lowercase
ToLowercase(s) == [i \in 1..Len(s) |-> LowerChar(s[i])]

\* str::contains(&str)
Contains(s, pat) ==
    \E i \in 0..(Len(s) - Len(pat)) : SubSeq(s, i + 1, i + Len(pat)) = pat

----------------------------------------------------------------------------
(* The node table.  A node is a record                                     *)
(*   kind: the NodeData variant; name: the element's local name;           *)
(*   attrs: the element's attribute list, each [name, value];              *)
(*   contents: the text; children: the child handles in document order.    *)

Nodes == 1..NumNodes
Document == 1

\* The handles of the table d
Handles(d) == 1..Len(d)

Attr(n, v) == [name |-> n, value |-> v]

Leaf(k, c) == [kind |-> k, name |-> "", attrs |-> <<>>, contents |-> c]
Elem(t, a) == [kind |-> "Element", name |-> t, attrs |-> a, contents |-> <<>>]

\* Attribute lists of the input elements: allow-listed and other names
\* interleaved, values in mixed case.
BodyAttrs ==
    << Attr("id", <<"x">>), Attr("onclick", <<"f">>), Attr("class", <<"c">>),
       Attr("property", <<"u","r","l">>), Attr("title", <<"T">>) >>

\* the property qualifies: mixed case, the keyword inside a longer word
MetaOg ==
    << Attr("charset", <<"u">>),
       Attr("property", <<"o","g",":","S","u","b","T","i","t","l","e">>),
       Attr("id", <<"m">>),
       Attr("content", <<"c">>) >>

\* a property without a keyword, a keyword in another attribute
MetaKeywords ==
    << Attr("property", <<"k","e","y","s">>),
       Attr("content", <<"t","i","t","l","e">>) >>

\* no property attribute at all
MetaName ==
    << Attr("name", <<"u","r","l">>),
       Attr("content", <<"c">>) >>

\* The node kinds and contents the input trees are built from, by name
Template(id) ==
    CASE id = "document" -> Leaf("Document", <<>>)
      [] id = "doctype"  -> Leaf("Doctype", <<>>)
      [] id = "comment"  -> Leaf("Comment", <<"c">>)
      [] id = "pi"       -> Leaf("ProcessingInstruction", <<"p">>)
      [] id = "blank"    -> Leaf("Text", <<" ", "\n">>)
      [] id = "text"     -> Leaf("Text", <<" ", "a", " ">>)
      [] id = "meta-og"  -> Elem("meta", MetaOg)
      [] id = "meta-key" -> Elem("meta", MetaKeywords)
      [] id = "meta-name" -> Elem("meta", MetaName)
      [] OTHER           -> Elem(id, BodyAttrs)

ElemTags == {"head", "title", "script", "svg", "div", "main"}

TemplateIds ==
    ElemTags \cup {"meta-og", "meta-key", "meta-name", "blank", "text",
                   "comment", "pi", "doctype"}

\* The last node appended and its ancestors: the parser's stack of open
\* elements, where the next node can be appended
RECURSIVE OpenNodes(_, _)
OpenNodes(d, n) ==
    IF d[n].children = <<>> THEN {n}
    ELSE {n} \cup OpenNodes(d, d[n].children[Len(d[n].children)])

\* What html5ever's tree builder can put under a parent: only the document
\* holds a doctype and it holds no text; meta is void; title and script hold
\* text only; head holds elements, comments and whitespace.
Allowed(pl, tm) ==
    /\ pl.kind \in {"Document", "Element"}
    /\ pl.name # "meta"
    /\ pl.name \in {"title", "script"} => tm.kind = "Text"
    /\ tm.kind = "Doctype" => pl.kind = "Document"
    /\ pl.kind = "Document" => tm.kind # "Text"
    /\ pl.name = "head" =>
          \/ tm.kind = "Element" /\ tm.name \in {"title", "meta", "script"}
          \/ tm.kind \in {"Comment", "ProcessingInstruction"}
          \/ tm.kind = "Text" /\ Trim(tm.contents) = <<>>

NewNode(tm) ==
    [kind |-> tm.kind, name |-> tm.name, attrs |-> tm.attrs,
     contents |-> tm.contents, children |-> <<>>]

----------------------------------------------------------------------------
(* slimmer.rs *)

\* should_keep_meta comparing the value as written, without to_lowercase
should_keep_meta_case_sensitive(node) ==
    /\ node.kind = "Element"
    /\ \E i \in 1..Len(node.attrs) :
          /\ node.attrs[i].name = "property"
          /\ \E keyword \in META_PROPERTY_KEYWORDS :
                Contains(node.attrs[i].value, keyword)

\* should_keep_meta
should_keep_meta(node) ==
    /\ node.kind = "Element"
    /\ \E i \in 1..Len(node.attrs) :
          /\ node.attrs[i].name = "property"
          /\ \E keyword \in META_PROPERTY_KEYWORDS :
                Contains(ToLowercase(node.attrs[i].value), keyword)

\* Vec::retain
RECURSIVE Retain(_, _)
Retain(attrs, allowed) ==
    IF attrs = <<>> THEN <<>>
    ELSE IF Head(attrs).name \in allowed
         THEN <<Head(attrs)>> \o Retain(Tail(attrs), allowed)
         ELSE Retain(Tail(attrs), allowed)

\* filter_attributes applying the body allow-list in every context
filter_attributes_body_only(node, is_in_head_context) ==
    IF node.kind # "Element" THEN node.attrs
    ELSE Retain(node.attrs, ALLOWED_BODY_ATTRS)

\* filter_attributes: the attribute list it leaves on the node
filter_attributes(node, is_in_head_context) ==
    IF node.kind # "Element" THEN node.attrs
    ELSE IF is_in_head_context
         THEN IF node.name = "meta" THEN Retain(node.attrs, ALLOWED_META_ATTRS)
              ELSE IF node.name = "title" THEN <<>>
              ELSE <<>>
         ELSE Retain(node.attrs, ALLOWED_BODY_ATTRS)

\* The Text arm testing the contents without trim
KeepTextUntrimmed(contents) == contents # <<>>

\* The Text arm of process_node_recursive
KeepText(contents) == Trim(contents) # <<>>

\* is_effectively_empty counting every text child as empty
is_effectively_empty_any_text(d, node) ==
    \A i \in 1..Len(node.children) :
        d[node.children[i]].kind \in {"Text", "Comment"}

\* is_effectively_empty, over the table d
is_effectively_empty(d, node) ==
    \A i \in 1..Len(node.children) :
        LET child == d[node.children[i]] IN
        CASE child.kind = "Text"    -> Trim(child.contents) = <<>>
          [] child.kind = "Comment" -> TRUE
          [] OTHER                  -> FALSE

\* Vec::remove(index), index counted from 0
RemoveAt(s, index) == SubSeq(s, 1, index) \o SubSeq(s, index + 2, Len(s))

\* The removal loop going through indices_to_remove from the first to the last
RECURSIVE RemoveIndicesForward(_, _)
RemoveIndicesForward(children, indices_to_remove) ==
    IF indices_to_remove = <<>> THEN children
    ELSE LET index == Head(indices_to_remove)
         IN IF index < Len(children)
            THEN RemoveIndicesForward(RemoveAt(children, index), Tail(indices_to_remove))
            ELSE RemoveIndicesForward(children, Tail(indices_to_remove))

\* for &index in indices_to_remove.iter().rev() { if index < len { remove } }
RECURSIVE RemoveIndices(_, _)
RemoveIndices(children, indices_to_remove) ==
    IF indices_to_remove = <<>> THEN children
    ELSE LET index == indices_to_remove[Len(indices_to_remove)]
             rest  == SubSeq(indices_to_remove, 1, Len(indices_to_remove) - 1)
         IN IF index < Len(children)
            THEN RemoveIndices(RemoveAt(children, index), rest)
            ELSE RemoveIndices(children, rest)

\* The removal loop reaches its else branch, an index that is not below
\* children_mut.len() (the warning of the Element arm)
RECURSIVE InvalidIndex(_, _)
InvalidIndex(children, indices_to_remove) ==
    IF indices_to_remove = <<>> THEN FALSE
    ELSE LET index == indices_to_remove[Len(indices_to_remove)]
             rest  == SubSeq(indices_to_remove, 1, Len(indices_to_remove) - 1)
         IN IF index < Len(children)
            THEN InvalidIndex(RemoveAt(children, index), rest)
            ELSE TRUE

\* The initial decision with TAGS_TO_REMOVE applied in head context only
InitialKeepNoRemoval(node, is_in_head_context) ==
    IF is_in_head_context
    THEN IF node.name = "title" THEN TRUE
         ELSE IF node.name = "meta" THEN should_keep_meta(node)
         ELSE FALSE
    ELSE TRUE

\* The initial decision for an element (pre-order)
InitialKeep(node, is_in_head_context) ==
    IF is_in_head_context
    THEN IF node.name = "title" THEN TRUE
         ELSE IF node.name = "meta" THEN should_keep_meta(node)
         ELSE FALSE
    ELSE IF node.name \in TAGS_TO_REMOVE THEN FALSE ELSE TRUE

\* The re-evaluation without the check of an emptied head
PostOrderDropKeepsHead(d, node, child_context_is_in_head) ==
    /\ ~child_context_is_in_head
    /\ node.name \in REMOVABLE_EMPTY_TAGS
    /\ is_effectively_empty(d, node)

\* The re-evaluation after the children were processed (post-order): TRUE when
\* keep_current_node is set to false
PostOrderDrop(d, node, child_context_is_in_head) ==
    \/ node.name = "head" /\ node.children = <<>>
    \/ /\ ~child_context_is_in_head
       /\ node.name \in REMOVABLE_EMPTY_TAGS
       /\ is_effectively_empty(d, node)

\* RefCell: the flag of a list is 0 when it is not borrowed, the number of
\* Ref when it is borrowed, -1 when a RefMut is held
NoBorrow == [children |-> 0, attrs |-> 0]

\* RefCell::borrow
Borrow(b, h, list) == [b EXCEPT ![h][list] = @ + 1]

\* drop of a Ref
Release(b, h, list) == [b EXCEPT ![h][list] = @ - 1]

\* RefCell::try_borrow_mut: Ok iff the list is not borrowed
try_borrow_mut(b, h, list) == b[h][list] = 0

\* The clone with the Ref kept for the rest of the function
CloneChildrenHoldingRef(b, h) == Borrow(b, h, "children")

\* let children_handles = handle.children.borrow().clone(): the flags after
\* the statement, the temporary Ref dropped at its end
CloneChildren(b, h) == Release(Borrow(b, h, "children"), h, "children")

Frame(h, ctx) ==
    [handle |-> h, is_in_head_context |-> ctx, pc |-> "enter",
     children_handles |-> <<>>, index |-> 0, indices_to_remove |-> <<>>]

Top == stack[Len(stack)]

BoolStr(b) == IF b THEN "true" ELSE "false"

\* process_node_recursive returns should_keep for the top frame's node: the
\* caller's loop pushes the index when the result is false and moves on.
Return(should_keep) ==
    /\ returned' = [returned EXCEPT ![Top.handle] = BoolStr(should_keep)]
    /\ IF Len(stack) = 1
       THEN /\ stack' = <<>>
            /\ pc' = IF pc = "prune" THEN "done" ELSE "done_again"
       ELSE LET caller == stack[Len(stack) - 1]
                next   == [caller EXCEPT
                             !.index = @ + 1,
                             !.indices_to_remove =
                                IF should_keep THEN @ ELSE Append(@, caller.index)]
            IN /\ stack' = Append(SubSeq(stack, 1, Len(stack) - 2), next)
               /\ pc' = pc

Enter(k) ==
    /\ stack # <<>>
    /\ Top.pc = "enter"
    /\ dom[Top.handle].kind = k
    /\ visited' = [visited EXCEPT ![Top.handle] =
                      IF Top.is_in_head_context THEN "head" ELSE "out"]

\* The Comment arm returning true
ProcessCommentKept ==
    /\ Enter("Comment")
    /\ Return(TRUE)
    /\ UNCHANGED <<dom, input, borrow, pruned_once>>
    /\ UNCHANGED <<lineVars, selVars>>

\* NodeData::Comment { .. } => false
ProcessComment ==
    /\ Enter("Comment")
    /\ Return(FALSE)
    /\ UNCHANGED <<dom, input, borrow, pruned_once>>
    /\ UNCHANGED <<lineVars, selVars>>

\* NodeData::ProcessingInstruction { .. } => false
ProcessPI ==
    /\ Enter("ProcessingInstruction")
    /\ Return(FALSE)
    /\ UNCHANGED <<dom, input, borrow, pruned_once>>
    /\ UNCHANGED <<lineVars, selVars>>

\* NodeData::Doctype { .. } => true
ProcessDoctype ==
    /\ Enter("Doctype")
    /\ Return(TRUE)
    /\ UNCHANGED <<dom, input, borrow, pruned_once>>
    /\ UNCHANGED <<lineVars, selVars>>

\* NodeData::Text { contents } => !contents.borrow().trim().is_empty()
ProcessText ==
    /\ Enter("Text")
    /\ Return(KeepText(dom[Top.handle].contents))
    /\ UNCHANGED <<dom, input, borrow, pruned_once>>
    /\ UNCHANGED <<lineVars, selVars>>

\* NodeData::Element, an ineligible one: the initial decision is false and the
\* function returns without touching the children
ProcessElementDrop ==
    /\ Enter("Element")
    /\ ~InitialKeep(dom[Top.handle], Top.is_in_head_context)
    /\ Return(FALSE)
    /\ UNCHANGED <<dom, input, borrow, pruned_once>>
    /\ UNCHANGED <<lineVars, selVars>>

\* NodeData::Element kept so far, and NodeData::Document: clone the child
\* handles and start the loop
ProcessChildrenStart ==
    /\ \/ /\ Enter("Element")
          /\ InitialKeep(dom[Top.handle], Top.is_in_head_context)
       \/ Enter("Document")
    /\ stack' = [stack EXCEPT ![Len(stack)] =
                    [@ EXCEPT !.pc = "children",
                              !.children_handles = dom[Top.handle].children]]
    /\ borrow' = CloneChildren(borrow, Top.handle)
    /\ UNCHANGED <<dom, input, pc, returned, pruned_once>>
    /\ UNCHANGED <<lineVars, selVars>>

\* The loop taking the children from the last to the first
RecurseChildFromLast ==
    /\ stack # <<>>
    /\ Top.pc = "children"
    /\ Top.index < Len(Top.children_handles)
    /\ LET node == dom[Top.handle]
           child_context_is_in_head ==
               IF node.kind = "Document" THEN FALSE
               ELSE Top.is_in_head_context \/ node.name = "head"
       IN stack' = Append(stack,
                      Frame(Top.children_handles[Len(Top.children_handles) - Top.index],
                            child_context_is_in_head))
    /\ UNCHANGED <<dom, input, pc, visited, returned, borrow, pruned_once>>
    /\ UNCHANGED <<lineVars, selVars>>

\* One iteration of the loop: the recursive call on the next child
RecurseChild ==
    /\ stack # <<>>
    /\ Top.pc = "children"
    /\ Top.index < Len(Top.children_handles)
    /\ LET node == dom[Top.handle]
           child_context_is_in_head ==
               IF node.kind = "Document" THEN FALSE
               ELSE Top.is_in_head_context \/ node.name = "head"
       IN stack' = Append(stack,
                      Frame(Top.children_handles[Top.index + 1],
                            child_context_is_in_head))
    /\ UNCHANGED <<dom, input, pc, visited, returned, borrow, pruned_once>>
    /\ UNCHANGED <<lineVars, selVars>>

\* The ? operator on an Err: every caller returns it in turn, up to slim
ReturnErr ==
    /\ stack' = <<>>
    /\ pc' = "error"
    /\ UNCHANGED returned

\* After the loop of an element: remove the marked children, filter the
\* attributes, re-evaluate, return.  Each RefMut is dropped before the return.
FinishElement ==
    /\ stack # <<>>
    /\ Top.pc = "children"
    /\ Top.index = Len(Top.children_handles)
    /\ dom[Top.handle].kind = "Element"
    /\ LET h    == Top.handle
           node == dom[h]
           child_context_is_in_head ==
               Top.is_in_head_context \/ node.name = "head"
           pruned == [node EXCEPT
                        !.children = RemoveIndices(@, Top.indices_to_remove)]
           after  == [pruned EXCEPT
                        !.attrs = filter_attributes(pruned, child_context_is_in_head)]
           d2     == [dom EXCEPT ![h] = after]
       IN IF Top.indices_to_remove # <<>> /\ ~try_borrow_mut(borrow, h, "children")
          THEN /\ dom' = dom
               /\ ReturnErr
          ELSE IF ~try_borrow_mut(borrow, h, "attrs")
          THEN /\ dom' = [dom EXCEPT ![h] = pruned]
               /\ ReturnErr
          ELSE /\ dom' = d2
               /\ Return(~PostOrderDrop(d2, after, child_context_is_in_head))
    /\ UNCHANGED <<input, visited, borrow, pruned_once>>
    /\ UNCHANGED <<lineVars, selVars>>

\* After the loop of the document: remove the marked children, return true
FinishDocument ==
    /\ stack # <<>>
    /\ Top.pc = "children"
    /\ Top.index = Len(Top.children_handles)
    /\ dom[Top.handle].kind = "Document"
    /\ IF Top.indices_to_remove # <<>>
          /\ ~try_borrow_mut(borrow, Top.handle, "children")
       THEN /\ dom' = dom
            /\ ReturnErr
       ELSE /\ dom' = [dom EXCEPT ![Top.handle].children =
                          RemoveIndices(@, Top.indices_to_remove)]
            /\ Return(TRUE)
    /\ UNCHANGED <<input, visited, borrow, pruned_once>>
    /\ UNCHANGED <<lineVars, selVars>>

\* The other entry points are not called
LinesIdle == content = <<>> /\ compacted = <<>>

SelectIdle == selectors = <<>> /\ html_content = <<>> /\ select_result = <<>>

\* slim: parse_document starts from the document node alone
Init ==
    /\ dom = << NewNode(Template("document")) >>
    /\ input = dom
    /\ stack = <<>>
    /\ pc = "parse"
    /\ visited = [n \in Nodes |-> "no"]
    /\ returned = [n \in Nodes |-> "none"]
    /\ borrow = [n \in Nodes |-> NoBorrow]
    /\ pruned_once = <<>>
    /\ LinesIdle
    /\ SelectIdle

\* parse_document: the tree builder appends one more node, in document order
ParseAppend ==
    /\ pc = "parse"
    /\ Len(dom) < NumNodes
    /\ \E q \in OpenNodes(dom, Document), id \in TemplateIds :
          /\ Allowed(dom[q], Template(id))
          /\ dom' = Append([dom EXCEPT ![q].children = Append(@, Len(dom) + 1)],
                           NewNode(Template(id)))
    /\ input' = dom'
    /\ UNCHANGED <<stack, pc, visited, returned, borrow, pruned_once>>
    /\ UNCHANGED <<lineVars, selVars>>

\* slim: process_node_recursive(&dom.document, false)
StartPrune ==
    /\ pc = "parse"
    /\ pc' = "prune"
    /\ stack' = << Frame(Document, FALSE) >>
    /\ UNCHANGED <<dom, input, visited, returned, borrow, pruned_once>>
    /\ UNCHANGED <<lineVars, selVars>>

Next ==
    \/ ParseAppend
    \/ StartPrune
    \/ ProcessComment
    \/ ProcessPI
    \/ ProcessDoctype
    \/ ProcessText
    \/ ProcessElementDrop
    \/ ProcessChildrenStart
    \/ RecurseChild
    \/ FinishElement
    \/ FinishDocument

Spec == Init /\ [][Next]_vars

\* process_node_recursive(&dom.document, false) once more, on the tree the
\* first call left
PruneAgain ==
    /\ pc = "done"
    /\ pc' = "prune_again"
    /\ pruned_once' = dom
    /\ stack' = << Frame(Document, FALSE) >>
    /\ visited' = [n \in Nodes |-> "no"]
    /\ returned' = [n \in Nodes |-> "none"]
    /\ UNCHANGED <<dom, input, borrow>>
    /\ UNCHANGED <<lineVars, selVars>>

PruneTwiceNext ==
    \/ ParseAppend
    \/ StartPrune
    \/ ProcessComment
    \/ ProcessPI
    \/ ProcessDoctype
    \/ ProcessText
    \/ ProcessElementDrop
    \/ ProcessChildrenStart
    \/ RecurseChild
    \/ FinishElement
    \/ FinishDocument
    \/ PruneAgain

PruneTwiceSpec == Init /\ [][PruneTwiceNext]_vars

----------------------------------------------------------------------------
(* remove_empty_lines *)

\* str::split_inclusive('\n'): every piece but the last ends with the line
\* feed; cur is the piece being read
RECURSIVE SplitInclusive(_, _)
SplitInclusive(s, cur) ==
    IF s = <<>> THEN IF cur = <<>> THEN <<>> ELSE <<cur>>
    ELSE IF Head(s) = "\n"
         THEN <<Append(cur, "\n")>> \o SplitInclusive(Tail(s), <<>>)
         ELSE SplitInclusive(Tail(s), Append(cur, Head(s)))

\* What str::lines does to a piece: strip the line feed, then a carriage
\* return before it
LinesMap(line) ==
    IF line # <<>> /\ line[Len(line)] = "\n"
    THEN LET l == SubSeq(line, 1, Len(line) - 1) IN
         IF l # <<>> /\ l[Len(l)] = "\r" THEN SubSeq(l, 1, Len(l) - 1) ELSE l
    ELSE line

\* str::lines
Lines(s) ==
    LET pieces == SplitInclusive(s, <<>>)
    IN [i \in 1..Len(pieces) |-> LinesMap(pieces[i])]

\* [&str]::join
RECURSIVE Join(_, _)
Join(strs, sep) ==
    IF strs = <<>> THEN <<>>
    ELSE IF Len(strs) = 1 THEN strs[1]
    ELSE strs[1] \o sep \o Join(Tail(strs), sep)

KeptLine(line) == Trim(line) # <<>>

\* remove_empty_lines filtering on !line.is_empty(), without trim
remove_empty_lines_untrimmed(s) ==
    Join(SelectSeq(Lines(s), LAMBDA line : line # <<>>), <<"\n">>)

\* remove_empty_lines
remove_empty_lines(s) ==
    Join(SelectSeq(Lines(s), KeptLine), <<"\n">>)

ContentChars == {"a", " ", "\n", "\r"}

Contents == UNION { [1..k -> ContentChars] : k \in 0..MaxContentLen }

\* slim has serialized the document: the string remove_empty_lines is given
LinesInit ==
    /\ content \in Contents
    /\ compacted = <<>>
    /\ pc = "lines"
    /\ dom = <<>> /\ input = <<>> /\ stack = <<>>
    /\ visited = <<>> /\ returned = <<>>
    /\ borrow = <<>> /\ pruned_once = <<>>
    /\ SelectIdle

\* let content = remove_empty_lines(content)?
RemoveEmptyLines ==
    /\ pc = "lines"
    /\ compacted' = remove_empty_lines(content)
    /\ pc' = "lines_done"
    /\ UNCHANGED <<content, slimVars, selVars>>

LinesNext == RemoveEmptyLines

LinesSpec == LinesInit /\ [][LinesNext]_vars

----------------------------------------------------------------------------
(* select.rs *)

\* Option<T>
None == <<>>
Some(x) == <<x>>

\* --- scraper::Selector::parse, on the part of the selector syntax the model
\* uses: type selectors, attribute selectors [name], [name=value] and
\* [name='value'], the descendant combinator, and the comma of a selector
\* list.  cssparser first cuts the string into tokens: a quoted string runs
\* to the next quote or to the end of the input, whatever is inside; a block
\* opened by [ runs to its ] or to the end of the input.

IsIdentChar(c) ==
    \/ \E i \in 1..Len(LowerChars) : LowerChars[i] = c
    \/ \E i \in 1..Len(UpperChars) : UpperChars[i] = c
    \/ c \in {"-", "_"}

IsSpace(c) == c = " "

IsQuote(c) == c = "'"

\* c belongs to the class of characters a token is made of
InClass(class, c) ==
    CASE class = "ident"  -> IsIdentChar(c)
      [] class = "ws"     -> IsSpace(c)
      [] class = "string" -> ~IsQuote(c)

\* The length of the longest prefix of s made of characters of the class
RECURSIVE RunLen(_, _)
RunLen(s, class) ==
    IF s = <<>> THEN 0
    ELSE IF InClass(class, Head(s)) THEN 1 + RunLen(Tail(s), class) ELSE 0

Token(t, v) == [t |-> t, v |-> v]

RECURSIVE Tokenize(_)
Tokenize(s) ==
    IF s = <<>> THEN <<>>
    ELSE LET c == Head(s) IN
         IF IsQuote(c)
         THEN LET n == RunLen(Tail(s), "string")
              IN <<Token("string", SubSeq(s, 2, n + 1))>>
                 \o Tokenize(SubSeq(s, n + 3, Len(s)))
         ELSE IF IsIdentChar(c)
         THEN LET n == RunLen(s, "ident")
              IN <<Token("ident", SubSeq(s, 1, n))>>
                 \o Tokenize(SubSeq(s, n + 1, Len(s)))
         ELSE IF IsSpace(c)
         THEN LET n == RunLen(s, "ws")
              IN <<Token("ws", SubSeq(s, 1, n))>>
                 \o Tokenize(SubSeq(s, n + 1, Len(s)))
         ELSE IF c \in {"[", "]", "=", ","}
         THEN <<Token(c, <<c>>)>> \o Tokenize(Tail(s))
         ELSE <<Token("delim", <<c>>)>> \o Tokenize(Tail(s))

Tok(toks, i) == IF i <= Len(toks) THEN toks[i].t ELSE "eof"

SkipWs(toks, i) == IF Tok(toks, i) = "ws" THEN i + 1 ELSE i

ParseOk(pos, val) == [ok |-> TRUE, pos |-> pos, val |-> val, cause |-> ""]
ParseErr(pos, cause) == [ok |-> FALSE, pos |-> pos, val |-> <<>>, cause |-> cause]

AttrSel(name, op, value) == [name |-> name, op |-> op, value |-> value]

\* The block of an attribute selector; i is the token after the [
ParseAttribute(toks, i) ==
    LET j == SkipWs(toks, i) IN
    IF Tok(toks, j) # "ident"
    THEN ParseErr(j, "Expected an attribute name")
    ELSE LET name == toks[j].v
             k    == SkipWs(toks, j + 1)
         IN CASE Tok(toks, k) = "eof" -> ParseOk(k, AttrSel(name, "exists", <<>>))
              [] Tok(toks, k) = "]"   -> ParseOk(k + 1, AttrSel(name, "exists", <<>>))
              [] Tok(toks, k) = "="   ->
                    LET m == SkipWs(toks, k + 1) IN
                    IF Tok(toks, m) \notin {"ident", "string"}
                    THEN ParseErr(m, "Expected an attribute value")
                    ELSE LET e == SkipWs(toks, m + 1) IN
                         CASE Tok(toks, e) = "eof" ->
                                 ParseOk(e, AttrSel(name, "eq", toks[m].v))
                           [] Tok(toks, e) = "]" ->
                                 ParseOk(e + 1, AttrSel(name, "eq", toks[m].v))
                           [] OTHER ->
                                 ParseErr(e, "Unexpected token in attribute selector")
              [] OTHER -> ParseErr(k, "Unexpected token in attribute selector")

RECURSIVE ParseAttributes(_, _, _)

\* r is what the attribute selector that has just been read parsed to
ParseAttributesRest(toks, acc, r) ==
    IF r.ok THEN ParseAttributes(toks, r.pos, Append(acc, r.val)) ELSE r

ParseAttributes(toks, i, acc) ==
    IF Tok(toks, i) # "["
    THEN ParseOk(i, acc)
    ELSE ParseAttributesRest(toks, acc, ParseAttribute(toks, i + 1))

\* r is what the attribute selectors of the compound selector parsed to
ParseCompoundRest(i, hasTag, tag, r) ==
    IF ~r.ok THEN r
    ELSE IF ~hasTag /\ r.val = <<>>
         THEN ParseErr(i, "Expected a selector")
         ELSE ParseOk(r.pos, [tag |-> tag, attrs |-> r.val])

\* A compound selector: an optional type selector, then attribute selectors
ParseCompound(toks, i) ==
    IF Tok(toks, i) = "ident"
    THEN ParseCompoundRest(i, TRUE, toks[i].v, ParseAttributes(toks, i + 1, <<>>))
    ELSE ParseCompoundRest(i, FALSE, <<>>, ParseAttributes(toks, i, <<>>))

\* The token that ends a complex selector, at e
ParseComplexEnd(toks, e, val) ==
    IF Tok(toks, e) \in {",", "eof"}
    THEN ParseOk(e, val)
    ELSE ParseErr(e, "Unexpected token")

RECURSIVE ParseComplex(_, _, _)

\* r is what the compound selector that has just been read parsed to
ParseComplexRest(toks, acc, r) ==
    IF ~r.ok THEN r
    ELSE IF Tok(toks, r.pos) = "ws" /\ Tok(toks, r.pos + 1) \in {"ident", "["}
         THEN ParseComplex(toks, r.pos + 1, Append(acc, r.val))
         ELSE ParseComplexEnd(toks, SkipWs(toks, r.pos), Append(acc, r.val))

\* A complex selector: compound selectors under the descendant combinator
ParseComplex(toks, i, acc) ==
    ParseComplexRest(toks, acc, ParseCompound(toks, SkipWs(toks, i)))

RECURSIVE ParseList(_, _, _)

\* r is what the complex selector that has just been read parsed to
ParseListRest(toks, acc, r) ==
    IF ~r.ok THEN r
    ELSE IF Tok(toks, r.pos) = ","
         THEN ParseList(toks, r.pos + 1, Append(acc, r.val))
         ELSE ParseOk(r.pos, Append(acc, r.val))

\* A selector list: complex selectors, a comma apart
ParseList(toks, i, acc) ==
    ParseListRest(toks, acc, ParseComplex(toks, i, <<>>))

\* Selector::parse(&selectors_str)
Selector_parse(str) == ParseList(Tokenize(str), 1, <<>>)

\* --- html.select(&css_selector), on a document whose elements are siblings
\* (no element of the model has an ancestor a compound selector matches)

MatchesCompound(e, c) ==
    /\ c.tag = <<>> \/ c.tag = e.tag
    /\ \A i \in 1..Len(c.attrs) :
          \E j \in 1..Len(e.attrs) :
             /\ e.attrs[j].name = c.attrs[i].name
             /\ c.attrs[i].op = "eq" => e.attrs[j].value = c.attrs[i].value

MatchesComplex(e, cx) == Len(cx) = 1 /\ MatchesCompound(e, cx[1])

MatchesList(e, css_selector) ==
    \E i \in 1..Len(css_selector) : MatchesComplex(e, css_selector[i])

\* The matching elements, in document order
Select(html, css_selector) ==
    SelectSeq(html, LAMBDA e : MatchesList(e, css_selector))

\* Elem::from_element_ref (elem.rs)
from_element_ref(el) ==
    [tag        |-> el.tag,
     attrs      |-> IF el.attrs = <<>> THEN None
                    ELSE Some({ el.attrs[i] : i \in 1..Len(el.attrs) }),
     text       |-> IF Trim(el.text) = <<>> THEN None ELSE Some(el.text),
     inner_html |-> IF Trim(el.text) = <<>> THEN None ELSE Some(el.text)]

NoError == [kind |-> "none", selector |-> <<>>, cause |-> ""]

\* The error built with the selector left out
SelectorParseErrorBare(selectors_str, cause) ==
    [kind |-> "SelectorParse", selector |-> <<>>, cause |-> cause]

\* Error::SelectorParse { selector: selectors_str.clone(), cause: err.to_string() }
SelectorParseError(selectors_str, cause) ==
    [kind |-> "SelectorParse", selector |-> selectors_str, cause |-> cause]

\* The loop building selectors_str, pushing every entry, blank or not
RECURSIVE BuildSelectorsStrKeepBlank(_, _)
BuildSelectorsStrKeepBlank(sels, selectors_str) ==
    IF sels = <<>> THEN selectors_str
    ELSE BuildSelectorsStrKeepBlank(
             Tail(sels),
             (IF selectors_str # <<>> THEN Append(selectors_str, ",")
              ELSE selectors_str) \o Trim(Head(sels)))

\* The loop building selectors_str
RECURSIVE BuildSelectorsStr(_, _)
BuildSelectorsStr(sels, selectors_str) ==
    IF sels = <<>> THEN selectors_str
    ELSE LET s == Trim(Head(sels)) IN
         IF s = <<>>
         THEN BuildSelectorsStr(Tail(sels), selectors_str)
         ELSE BuildSelectorsStr(
                  Tail(sels),
                  (IF selectors_str # <<>> THEN Append(selectors_str, ",")
                   ELSE selectors_str) \o s)

\* select: what it returns, and in parsed the strings it gave Selector::parse
select(html, sels) ==
    LET selectors_str == BuildSelectorsStr(sels, <<>>) IN
    IF selectors_str = <<>>
    THEN [ok |-> TRUE, els |-> <<>>, error |-> NoError, parsed |-> <<>>]
    ELSE LET css_selector == Selector_parse(selectors_str) IN
         IF ~css_selector.ok
         THEN [ok |-> FALSE, els |-> <<>>,
               error |-> SelectorParseError(selectors_str, css_selector.cause),
               parsed |-> <<selectors_str>>]
         ELSE LET found == Select(html, css_selector.val) IN
              [ok |-> TRUE,
               els |-> [i \in 1..Len(found) |-> from_element_ref(found[i])],
               error |-> NoError,
               parsed |-> <<selectors_str>>]

\* The selector strings the callers pass: blank ones, one to trim, an
\* invalid one, and two halves of a quoted attribute value
SelectorPool ==
    { <<>>,
      <<" ">>,
      <<" ", "p">>,
      <<"q">>,
      <<"p", "[">>,
      <<"[", "p", "=", "'", "q">>,
      <<"q", "'", "]">> }

HtmlElement(tag, attrs, text) == [tag |-> tag, attrs |-> attrs, text |-> text]

\* The documents: their elements in document order
HtmlPool ==
    { << HtmlElement(<<"p">>, <<>>, <<"1">>),
         HtmlElement(<<"q">>, << Attr(<<"p">>, <<"q", ",", "q">>) >>, <<" ">>),
         HtmlElement(<<"p">>, << Attr(<<"p">>, <<"q">>) >>, <<" ", "2">>) >>,
      << HtmlElement(<<"q">>, <<>>, <<"3">>) >> }

SelectInit ==
    /\ selectors \in UNION { [1..k -> SelectorPool] : k \in 0..MaxSelectors }
    /\ html_content \in HtmlPool
    /\ select_result = <<>>
    /\ pc = "select"
    /\ dom = <<>> /\ input = <<>> /\ stack = <<>>
    /\ visited = <<>> /\ returned = <<>>
    /\ borrow = <<>> /\ pruned_once = <<>>
    /\ LinesIdle

\* select(html_content, selectors)
SelectCall ==
    /\ pc = "select"
    /\ select_result' = select(html_content, selectors)
    /\ pc' = "select_done"
    /\ UNCHANGED <<selectors, html_content, slimVars, lineVars>>

SelectNext == SelectCall

SelectSpec == SelectInit /\ [][SelectNext]_vars

----------------------------------------------------------------------------
(* The tree slim leaves, and what the claims say of it *)

Done == pc = "done"

\* The parent of a node other than the document, in the parsed tree
ParentOf(n) ==
    CHOOSE p \in Handles(input) :
        \E i \in 1..Len(input[p].children) : input[p].children[i] = n

ChildSet(d, n) == { d[n].children[i] : i \in 1..Len(d[n].children) }

\* n is still attached to the document in the table d
RECURSIVE InTree(_, _)
InTree(d, n) ==
    \/ n = Document
    \/ /\ n \in ChildSet(d, ParentOf(n))
       /\ InTree(d, ParentOf(n))

InOutput(n) == InTree(dom, n)

RECURSIVE ProperAncestors(_)
ProperAncestors(n) ==
    IF n = Document THEN {}
    ELSE {ParentOf(n)} \cup ProperAncestors(ParentOf(n))

\* n lives inside a head element of the parsed tree
InsideHead(n) == \E a \in ProperAncestors(n) : input[a].name = "head"

IsElement(n) == input[n].kind = "Element"

NonBlank(contents) == \E i \in 1..Len(contents) : ~IsWhitespace(contents[i])

\* C1: once slim has pruned the tree, no Comment and no ProcessingInstruction
\* node is left in it, at any depth.
C1_NoCommentNoPI ==
    Done => \A n \in Handles(dom) :
                InOutput(n) => dom[n].kind \notin {"Comment", "ProcessingInstruction"}

\* a comment and a processing instruction were in the parsed tree, were
\* processed, and the document still has a child
C1_Witness ==
    /\ Done
    /\ \E n \in Handles(input) : input[n].kind = "Comment" /\ visited[n] # "no"
    /\ \E n \in Handles(input) :
          input[n].kind = "ProcessingInstruction" /\ visited[n] # "no"
    /\ dom[Document].children # <<>>

\* C2: once slim has pruned the tree, no element named script, link, style,
\* svg or base is left in it, inside head or outside.
C2_NoRemovedTags ==
    Done => \A n \in Handles(dom) :
                InOutput(n) =>
                    ~(dom[n].kind = "Element"
                      /\ dom[n].name \in {"script", "link", "style", "svg", "base"})

\* a script inside head and a script outside head were both processed
C2_Witness ==
    /\ Done
    /\ \E n \in Handles(input) : input[n].name = "script" /\ visited[n] = "head"
    /\ \E n \in Handles(input) : input[n].name = "script" /\ visited[n] = "out"

\* The allow-list of the claim for an element of the parsed tree
C3_AllowList(n) ==
    IF InsideHead(n)
    THEN IF input[n].name = "meta" THEN {"property", "content"} ELSE {}
    ELSE IF input[n].name = "head" THEN {}
    ELSE {"class", "aria-label", "href", "title", "id"}

C3_Listed(n, a) == a.name \in C3_AllowList(n)

C4_HasTitleOrMeta(n) ==
    \E c \in ChildSet(dom, n) :
        /\ dom[c].kind = "Element"
        /\ \/ dom[c].name = "title"
           \/ dom[c].name = "meta" /\ should_keep_meta(dom[c])

\* C4: a head element processed outside head context is left in the tree iff,
\* its children pruned, it holds a title or a qualifying meta.
C4_HeadRetained ==
    Done => \A n \in Handles(dom) :
                (IsElement(n) /\ input[n].name = "head" /\ visited[n] = "out") =>
                    (InOutput(n) <=> C4_HasTitleOrMeta(n))

\* a head is kept with one child pruned away and a qualifying child left
C4_Witness ==
    /\ Done
    /\ \E n \in Handles(dom) :
          /\ input[n].name = "head" /\ visited[n] = "out" /\ InOutput(n)
          /\ dom[n].children # <<>>
          /\ Len(dom[n].children) < Len(input[n].children)

C5_RemovableEmpty ==
    {"div", "span", "p", "i", "b", "em", "strong", "section", "article",
     "header", "footer", "nav", "aside"}

\* the children left under n include an element or a text that is not
\* whitespace only
C5_HasContent(n) ==
    \E c \in ChildSet(dom, n) :
        \/ dom[c].kind = "Element"
        \/ dom[c].kind = "Text" /\ NonBlank(dom[c].contents)

\* C5: a processed element of the removable-empty set is left in the tree
\* iff, its subtree pruned bottom-up, it holds an element child or a text child
\* that is not whitespace only.
C5_RemovableKeptIffContent ==
    Done => \A n \in Handles(dom) :
                (IsElement(n) /\ input[n].name \in C5_RemovableEmpty
                 /\ visited[n] # "no") =>
                    (InOutput(n) <=> C5_HasContent(n))

\* a removable element is gone because its only child, a removable element
\* holding whitespace, was dropped before it was re-evaluated
C5_Witness ==
    /\ Done
    /\ \E n \in Handles(dom) :
          /\ input[n].name \in C5_RemovableEmpty /\ ~InOutput(n)
          /\ \E c \in ChildSet(input, n) :
                /\ input[c].name \in C5_RemovableEmpty /\ visited[c] = "out"
                /\ input[c].children # <<>>

\* C6: outside head context, an element that is not script, link, style, svg,
\* base, not head and not in the removable-empty set is left in the tree
\* whenever its parent is, whatever its children.
C6_PlainElementKept ==
    Done => \A n \in Handles(dom) :
                (/\ IsElement(n)
                 /\ ~InsideHead(n)
                 /\ input[n].name \notin
                        {"script", "link", "style", "svg", "base", "head"}
                        \cup C5_RemovableEmpty
                 /\ InOutput(ParentOf(n))) =>
                    InOutput(n)

\* such an element is kept with every child pruned away (whitespace,
\* comments), and another one is kept with no child at all
C6_Witness ==
    /\ Done
    /\ \E n \in Handles(dom) :
          /\ input[n].name = "main" /\ InOutput(n)
          /\ input[n].children # <<>> /\ dom[n].children = <<>>
    /\ \E n \in Handles(dom) :
          /\ input[n].name = "main" /\ InOutput(n)
          /\ input[n].children = <<>>

\* the Meta-Keep Predicate in the words of the claim
C7_Qualifies(attrs) ==
    \E i \in 1..Len(attrs) :
        /\ attrs[i].name = "property"
        /\ \E k \in { <<"t","i","t","l","e">>, <<"u","r","l">>,
                       <<"i","m","a","g","e">>,
                       <<"d","e","s","c","r","i","p","t","i","o","n">> } :
              Contains(ToLowercase(attrs[i].value), k)

\* C7: an element processed in head context is kept iff it is a title, or a
\* meta with a property attribute whose lower-cased value contains title,
\* url, image or description.
C7_HeadEligibility ==
    Done => \A n \in Handles(dom) :
                (IsElement(n) /\ visited[n] = "head") =>
                    /\ (returned[n] = "true") <=>
                           \/ input[n].name = "title"
                           \/ input[n].name = "meta" /\ C7_Qualifies(input[n].attrs)
                    /\ InOutput(n) <=> (returned[n] = "true")

\* inside one head, a meta with a mixed-case property was kept and a meta
\* whose keyword sits in another attribute was dropped
C7_Witness ==
    /\ Done
    /\ \E n \in Handles(dom) :
          /\ input[n].name = "meta" /\ visited[n] = "head" /\ InOutput(n)
          /\ ~should_keep_meta_case_sensitive(input[n])
    /\ \E n \in Handles(dom) :
          /\ input[n].name = "meta" /\ visited[n] = "head" /\ ~InOutput(n)

----------------------------------------------------------------------------
(* What the claims say of remove_empty_lines *)

\* The text between the line feeds of s, as str::split('\n') gives it
RECURSIVE SplitLF(_, _)
SplitLF(s, cur) ==
    IF s = <<>> THEN <<cur>>
    ELSE IF Head(s) = "\n" THEN <<cur>> \o SplitLF(Tail(s), <<>>)
    ELSE SplitLF(Tail(s), Append(cur, Head(s)))

\* The lines of the returned text: none for the empty text
C8_OutputLines == IF compacted = <<>> THEN <<>> ELSE SplitLF(compacted, <<>>)

\* C8: the text remove_empty_lines returns holds no line that is empty or
\* whitespace only, and its lines, one line feed apart, are the lines of the
\* given content that are not blank, each unchanged, in their order.
C8_LinesCompacted ==
    pc = "lines_done" =>
        /\ \A i \in 1..Len(C8_OutputLines) : NonBlank(C8_OutputLines[i])
        /\ C8_OutputLines = SelectSeq(Lines(content), NonBlank)

\* blank lines between two lines that survive: a whitespace-only line and a
\* line dropped, the text shorter than the content
C8_Witness ==
    /\ pc = "lines_done"
    /\ Len(C8_OutputLines) >= 2
    /\ \E i \in 1..Len(Lines(content)) :
          Lines(content)[i] # <<>> /\ ~NonBlank(Lines(content)[i])
    /\ Len(compacted) < Len(content)

----------------------------------------------------------------------------
(* What the claims say of select *)

C9_NonBlankSelectors == SelectSeq(selectors, NonBlank)

\* C9: select returns for a selector sequence what it returns for the
\* sequence without its blank entries; when no entry is left it returns Ok
\* with no element and gives nothing to the selector engine.
C9_BlankIgnored ==
    pc = "select_done" =>
        /\ select_result = select(html_content, C9_NonBlankSelectors)
        /\ C9_NonBlankSelectors = <<>> =>
              /\ select_result.ok
              /\ select_result.els = <<>>
              /\ select_result.parsed = <<>>

\* a blank entry before a selector that matched elements
C9_Witness ==
    /\ pc = "select_done"
    /\ Len(selectors) = 2
    /\ ~NonBlank(selectors[1])
    /\ NonBlank(selectors[2])
    /\ select_result.ok
    /\ Len(select_result.els) >= 2

\* The trimmed non-blank selectors, a comma apart
C10_Joined ==
    Join([i \in 1..Len(C9_NonBlankSelectors) |-> Trim(C9_NonBlankSelectors[i])],
         <<",">>)

C10_IsError ==
    /\ ~select_result.ok
    /\ select_result.els = <<>>
    /\ select_result.error.kind = "SelectorParse"
    /\ select_result.error.cause # ""

C11_MatchesSome(e) ==
    \E i \in 1..Len(selectors) :
        /\ NonBlank(selectors[i])
        /\ Selector_parse(Trim(selectors[i])).ok
        /\ MatchesList(e, Selector_parse(Trim(selectors[i])).val)

\* The elements matching at least one selector, each once, in document order
C11_Union ==
    LET found == SelectSeq(html_content, C11_MatchesSome)
    IN [i \in 1..Len(found) |-> from_element_ref(found[i])]

\* The orders the selector sequence can be given in
C11_Permutations ==
    { f \in [1..Len(selectors) -> 1..Len(selectors)] :
        \A i, j \in 1..Len(selectors) : f[i] = f[j] => i = j }

C11_Permuted(f) == [i \in 1..Len(selectors) |-> selectors[f[i]]]

\* C11 as claimed: when every non-blank selector is valid on its own, select
\* returns exactly the elements matching at least one of them, each once, in
\* document order, and returns the same list for every order of the selectors.
C11_OrInDocumentOrder ==
    pc = "select_done" =>
        ((\A i \in 1..Len(selectors) :
             NonBlank(selectors[i]) => Selector_parse(Trim(selectors[i])).ok)
         => /\ select_result.ok
            /\ select_result.els = C11_Union
            /\ \A f \in C11_Permutations :
                  select(html_content, C11_Permuted(f)).els = select_result.els)

----------------------------------------------------------------------------
(* What the later claims say of slim *)

\* The names of the attributes left on n
C12_AttrNames(n) == { dom[n].attrs[i].name : i \in 1..Len(dom[n].attrs) }

\* n is an element left in the tree that lives outside head
C12_OutsideHead(n) ==
    InOutput(n) /\ IsElement(n) /\ ~InsideHead(n) /\ input[n].name # "head"

C13_Eligible(a) ==
    CASE input[a].kind = "Document" -> TRUE
      [] input[a].kind = "Element" ->
            IF InsideHead(a)
            THEN \/ input[a].name = "title"
                 \/ input[a].name = "meta" /\ C7_Qualifies(input[a].attrs)
            ELSE input[a].name \notin {"script", "link", "style", "svg", "base"}
      [] OTHER -> FALSE

C13_AncestorsEligible(n) == \A a \in ProperAncestors(n) : C13_Eligible(a)

\* C13: a call of process_node_recursive is the first one for its node; a
\* child is entered only when every child before it in the parent's list has
\* returned; a node is entered only if every proper ancestor passed its
\* pre-order check, and when slim is done every such node has been entered.
C13_OncePerNodeInOrder ==
    /\ (stack # <<>> /\ Top.pc = "enter") => visited[Top.handle] = "no"
    /\ \A p \in Handles(input) :
          \A i, j \in 1..Len(input[p].children) :
             (i < j /\ visited[input[p].children[j]] # "no") =>
                 returned[input[p].children[i]] # "none"
    /\ \A n \in Handles(input) :
          visited[n] # "no" => C13_AncestorsEligible(n)
    /\ Done => \A n \in Handles(input) :
                  C13_AncestorsEligible(n) => visited[n] # "no"

\* the child of an ineligible element was never entered, and the element's
\* sibling after it was
C13_Witness ==
    /\ Done
    /\ \E n \in Handles(input) :
          /\ n # Document /\ visited[n] = "no"
          /\ \E m \in Handles(input) :
                /\ m > n /\ visited[m] # "no"
                /\ ParentOf(m) = ParentOf(ParentOf(n))

\* C14: when a call on an Element or on the Document returns true, the
\* node's child list is the parsed child list cut down to the children whose
\* call returned true, in the parsed order; and the removal loop never meets
\* an index that is not below the length of the list.
C14_ChildrenAreKeptSubsequence ==
    /\ \A n \in Handles(input) :
          (input[n].kind \in {"Element", "Document"} /\ returned[n] = "true") =>
              dom[n].children =
                  SelectSeq(input[n].children, LAMBDA c : returned[c] = "true")
    /\ (stack # <<>> /\ Top.pc = "children"
        /\ Top.index = Len(Top.children_handles)) =>
           ~InvalidIndex(dom[Top.handle].children, Top.indices_to_remove)

\* a kept node lost its first and its last child and kept the one between
C14_Witness ==
    /\ Done
    /\ \E n \in Handles(input) :
          /\ returned[n] = "true"
          /\ Len(input[n].children) = 3
          /\ dom[n].children = << input[n].children[2] >>

\* C15: no Ref or RefMut of a child list or of an attribute list is held from
\* one step of the traversal to the next, so each try_borrow_mut of the
\* removal and of filter_attributes finds its list not borrowed and slim never
\* returns the "already borrowed mutably" error; when slim returns Ok no call
\* is left unfinished and every node left in the tree was processed and kept.
C15_NoBorrowConflict ==
    /\ pc # "error"
    /\ \A n \in Nodes : borrow[n] = NoBorrow
    /\ (stack # <<>> /\ Top.pc = "children"
        /\ Top.index = Len(Top.children_handles)) =>
           /\ try_borrow_mut(borrow, Top.handle, "children")
           /\ try_borrow_mut(borrow, Top.handle, "attrs")
    /\ Done => /\ stack = <<>>
               /\ \A n \in Handles(dom) : InOutput(n) => returned[n] = "true"

\* slim returned Ok after an element took the RefMut of its child list, to
\* remove a child, and the RefMut of its attribute list, dropping attributes
C15_Witness ==
    /\ Done
    /\ \E n \in Handles(dom) :
          /\ IsElement(n) /\ InOutput(n)
          /\ Len(dom[n].children) < Len(input[n].children)
          /\ Len(dom[n].attrs) < Len(input[n].attrs)

\* C16: a Text node under a parent left in the tree is left in the tree iff
\* its parsed content has a character that is not whitespace, whatever the
\* context it was processed in, and is then unchanged; the Document is left,
\* and so is, unchanged, every Doctype under a parent left in the tree.
C16_TextAndDoctype ==
    Done =>
        /\ InOutput(Document)
        /\ dom[Document].kind = "Document"
        /\ returned[Document] = "true"
        /\ \A n \in Handles(input) :
              (n # Document /\ InOutput(ParentOf(n))) =>
                  /\ input[n].kind = "Text" =>
                        /\ InOutput(n) <=> NonBlank(input[n].contents)
                        /\ InOutput(n) => dom[n] = input[n]
                  /\ input[n].kind = "Doctype" =>
                        /\ InOutput(n)
                        /\ dom[n] = input[n]

\* under one kept parent a whitespace-only text is gone and a text with
\* whitespace around a letter is left as it was
C16_Witness ==
    /\ Done
    /\ \E n, m \in Handles(input) :
          /\ n # Document /\ m # Document
          /\ ParentOf(n) = ParentOf(m)
          /\ input[n].kind = "Text" /\ ~InOutput(n)
          /\ input[m].kind = "Text" /\ InOutput(m)
          /\ IsWhitespace(Head(dom[m].contents))

\* C17: process_node_recursive called on the document a second time returns
\* true for every node left by the first call and changes no child list and
\* no attribute list; a meta left in head still has a qualifying property and
\* a removable-empty element left outside head still has content.
C17_PruneIdempotent ==
    /\ pc \in {"prune_again", "done_again"} => dom = pruned_once
    /\ pc = "done_again" =>
          \A n \in Handles(dom) :
              InOutput(n) =>
                  /\ returned[n] = "true"
                  /\ (input[n].name = "meta" /\ InsideHead(n)) =>
                         C7_Qualifies(dom[n].attrs)
                  /\ (input[n].name \in C5_RemovableEmpty /\ ~InsideHead(n)) =>
                         C5_HasContent(n)

\* the second call has returned on a tree from which the first call removed a
\* node, and that holds a meta in head that lost attributes
C17_Witness ==
    /\ pc = "done_again"
    /\ \E n \in Handles(dom) : ~InOutput(n)
    /\ \E n \in Handles(dom) :
          /\ input[n].name = "meta" /\ InsideHead(n) /\ InOutput(n)
          /\ Len(dom[n].attrs) < Len(input[n].attrs)

====
